---- MODULE Spec2Model ----
(***************************************************************************)
(* Model of crates/libm-analyze/src/lib.rs: the for_each_api procedural    *)
(* macro.  get_libm_files walks the libm source tree and parses every .rs  *)
(* file, get_functions extracts and validates the public functions, and    *)
(* for_each_api expands the user macro once per validated signature.       *)
(*                                                                         *)
(* Syntax trees are records shaped like the syn types the code matches on. *)
(* Function identifiers are sequences of characters, because to_api_kind   *)
(* works on the characters of the name.                                    *)
(***************************************************************************)
EXTENDS Integers, Sequences, FiniteSets, TLC

VARIABLES pc, walked, dropped, files, ignored, pos, functions, errors,
          next_fn, tokens, panic

vars == <<pc, walked, dropped, files, ignored, pos, functions, errors,
          next_fn, tokens, panic>>

(* Bounds of the model: the directory entries of a walk, the items of a   *)
(* source tree, and the characters of a function name.                     *)
MaxEntries == 3
MaxItems == 2
MaxIdLen == 3

-----------------------------------------------------------------------------
(* syn::Type values.  Only the variants and fields that valid_ty reads are *)
(* kept apart; every variant other than Ptr and Path is told by its tag.   *)

Seg(id, arguments) == [ident |-> id, arguments |-> arguments]

PathTy(qself, segments) ==
    [tag |-> "Path", qself |-> qself, leading_colon |-> FALSE,
     segments |-> segments]

PtrTy(konst, elem) ==
    [tag |-> "Ptr", const_token |-> konst, mutability |-> ~konst, elem |-> elem]

Prim(name) == PathTy(FALSE, <<Seg(name, "None")>>)

F64 == Prim("f64")
I32 == Prim("i32")
NamedT == Prim("T")
F64Args == PathTy(FALSE, <<Seg("f64", "AngleBracketed")>>)
TwoSeg == PathTy(FALSE, <<Seg("core", "None"), Seg("f64", "None")>>)
QSelf == PathTy(TRUE, <<Seg("f64", "None")>>)
RefTy == [tag |-> "Reference"]
TupleTy == [tag |-> "Tuple"]

(* The names valid_ty accepts. *)
Whitelist ==
    {"i8", "i16", "i32", "i64", "isize", "u8", "u16", "u32", "u64", "usize",
     "f32", "f64"}

(* valid_ty: "true", "false", or "panic" when one of its assertions fails. *)
RECURSIVE valid_ty(_)
valid_ty(t) ==
    CASE t.tag = "Ptr" ->
           IF t.const_token /\ t.mutability THEN "panic"
           ELSE IF t.elem.tag = "Path" THEN valid_ty(t.elem)
           ELSE "false"
      [] t.tag = "Path" ->
           IF t.qself THEN "panic"
           ELSE IF Len(t.segments) # 1 THEN "panic"
           ELSE IF t.segments[1].ident \in Whitelist THEN "true"
           ELSE "false"
      [] OTHER -> "false"

-----------------------------------------------------------------------------
(* Characters and identifiers. *)

ToUpperTable ==
    [c \in {"s", "i", "n", "j", "f", "S", "_", "0"} |->
        CASE c = "s" -> "S" [] c = "i" -> "I" [] c = "n" -> "N"
          [] c = "j" -> "J" [] c = "f" -> "F" [] OTHER -> c]

(* char::to_uppercase().nth(0) *)
to_uppercase(c) == ToUpperTable[c]

(* str::replacen(from, to, count) for a one-character pattern. *)
RECURSIVE replacen(_, _, _, _)
replacen(s, from, to, count) ==
    IF s = <<>> THEN <<>>
    ELSE IF count > 0 /\ Head(s) = from
         THEN <<to>> \o replacen(Tail(s), from, to, count - 1)
         ELSE <<Head(s)>> \o replacen(Tail(s), from, to, count)

(* to_api_kind with str::replace in the place of str::replacen. *)
to_api_kind_replace(id) ==
    LET first == id[1]
        first_upper == to_uppercase(first)
    IN replacen(id, first, first_upper, Len(id))

(* to_api_kind: the name with its first character in upper case. *)
to_api_kind(id) ==
    LET first == id[1]
        first_upper == to_uppercase(first)
    IN replacen(id, first, first_upper, 1)

-----------------------------------------------------------------------------
(* Option<T>: None is the empty sequence, Some(x) the one-element one. *)
None == <<>>
Some(x) == <<x>>

(* Function identifiers of the modelled source tree. *)
Sin == <<"s", "i", "n">>
Jnf == <<"j", "n", "f">>

(* syn::FnArg *)
Captured(ty) == [kind |-> "Captured", ty |-> ty]
Ignored(ty) == [kind |-> "Ignored", ty |-> ty]
SelfValue == [kind |-> "SelfValue"]

(* syn::Item.  kind "Fn" is syn::Item::Fn with the fields of syn::ItemFn   *)
(* and, flattened into it, those of syn::FnDecl; any other kind is another *)
(* item (a struct, a use, a module).  abi is "None" without an extern      *)
(* token, "Extern" for a bare extern, and otherwise the ABI's name.  An    *)
(* attribute is the sequence of the identifiers in its rendered tokens.    *)
ItemFn(vis, id, konst, async, unsafe, attrs, abi, tps, lts, cps, inputs, variadic, output) ==
    [kind |-> "Fn", vis |-> vis, ident |-> id, constness |-> konst,
     asyncness |-> async, unsafety |-> unsafe, attrs |-> attrs, abi |-> abi,
     type_params |-> tps, lifetimes |-> lts, const_params |-> cps,
     inputs |-> inputs, variadic |-> variadic, output |-> output]

DefaultRet == [tag |-> "Default"]
Inline == <<"inline">>
NoPanic == <<"no_panic">>
Cold == <<"cold">>

(* #[inline] #[no_panic] pub extern "C" fn sin(x: f64) -> f64 *)
Good == ItemFn("Public", Sin, FALSE, FALSE, FALSE, <<Inline, NoPanic>>, "C",
               0, 0, 0, <<Captured(F64)>>, FALSE, F64)

(* The error messages of get_functions, one per err! call site. *)
NotExternC == "not extern C"
IsConst == "is const"
IsAsync == "is async"
IsUnsafe == "is unsafe"
HasVariadic == "contains variadic arguments"
HasGenerics == "contains generic parameters"
HasLifetimes == "contains lifetime parameters"
HasConsts == "contains const parameters"
MissingBoth == "missing inline and no_panic attributes"
MissingInline == "missing inline attribute"
MissingNoPanic == "missing no_panic attributes"
BadReturn == "returns unsupported type"
BadArgument == "takes unsupported argument type"

(* FnSig::name *)
name(fn_sig) == fn_sig.ident

(* err!: report the message (printed when the analyze feature is on) and  *)
(* set e.                                                                  *)
err(st, msg) == [st EXCEPT !.e = TRUE, !.errs = Append(@, msg)]

(* The rendered attributes joined by ",", as the sequence of their         *)
(* identifiers; contains is str::contains for a marker that is one of them. *)
RECURSIVE join(_)
join(attrs) == IF attrs = <<>> THEN <<>> ELSE Head(attrs) \o join(Tail(attrs))

contains(text, marker) == \E i \in 1..Len(text) : text[i] = marker

(* Lines 155-188: the ABI and the const, async and unsafe qualifiers. *)
check_qualifiers(item, st) ==
    LET c_abi == item.abi = "C"
        s0 == [st EXCEPT !.fn_sig.c_abi = c_abi]
        s1 == IF ~s0.fn_sig.c_abi THEN err(s0, NotExternC) ELSE s0
        s2 == IF item.constness THEN err(s1, IsConst) ELSE s1
        s3 == IF item.asyncness THEN err(s2, IsAsync) ELSE s2
    IN IF item.unsafety THEN [err(s3, IsUnsafe) EXCEPT !.e = s3.e] ELSE s3

(* Lines 199-222: variadic arguments and generic parameters. *)
check_generics(item, st) ==
    LET s1 == IF item.variadic THEN err(st, HasVariadic) ELSE st
        s2 == IF item.type_params # 0 THEN err(s1, HasGenerics) ELSE s1
        s3 == IF item.lifetimes # 0 THEN err(s2, HasLifetimes) ELSE s2
    IN IF item.const_params # 0 THEN err(s3, HasConsts) ELSE s3

(* Lines 223-237: the inline and no_panic attributes. *)
check_attrs(item, st) ==
    IF item.attrs = <<>> THEN err(st, MissingBoth)
    ELSE LET attrs == join(item.attrs)
             s1 == IF ~contains(attrs, "inline") THEN err(st, MissingInline) ELSE st
         IN IF ~contains(attrs, "no_panic") THEN err(s1, MissingNoPanic) ELSE s1

(* Lines 239-243: the return type. *)
check_output(item, st) ==
    IF item.output.tag = "Default" THEN st
    ELSE LET v == valid_ty(item.output)
         IN CASE v = "panic" -> [st EXCEPT !.panicked = TRUE]
              [] v = "true" -> [st EXCEPT !.fn_sig.ret_ty = Some(item.output)]
              [] OTHER -> err(st, BadReturn)

(* check_inputs with the argument types inserted at the front. *)
RECURSIVE check_inputs_front(_, _)
check_inputs_front(inputs, st) ==
    IF inputs = <<>> \/ st.panicked THEN st
    ELSE LET input == Head(inputs)
             v == IF input.kind = "Captured" THEN valid_ty(input.ty) ELSE "false"
             s1 == CASE v = "panic" -> [st EXCEPT !.panicked = TRUE]
                     [] v = "true" ->
                          [st EXCEPT !.fn_sig.arg_tys = <<input.ty>> \o @]
                     [] OTHER -> err(st, BadArgument)
         IN check_inputs_front(Tail(inputs), s1)

(* Lines 244-254: the arguments, in order; a panic ends the loop. *)
RECURSIVE check_inputs(_, _)
check_inputs(inputs, st) ==
    IF inputs = <<>> \/ st.panicked THEN st
    ELSE LET input == Head(inputs)
             v == IF input.kind = "Captured" THEN valid_ty(input.ty) ELSE "false"
             s1 == CASE v = "panic" -> [st EXCEPT !.panicked = TRUE]
                     [] v = "true" ->
                          [st EXCEPT !.fn_sig.arg_tys = Append(@, input.ty)]
                     [] OTHER -> err(st, BadArgument)
         IN check_inputs(Tail(inputs), s1)

(* is_ignored looking up the category in the place of the name. *)
is_ignored_by_kind(fn_sig, ign) == ign # None /\ fn_sig.api_kind \in ign[1]

(* Lines 137-141: the function is named in the ignore set. *)
is_ignored(fn_sig, ign) == ign # None /\ name(fn_sig) \in ign[1]

(* One iteration of the loop of get_functions over the items, lines        *)
(* 114-264: what it reports (errs), whether it sets e, the signature it    *)
(* builds, whether it pushes it (push), and whether it panics.             *)
visit_item(item, ign) ==
    LET fn_sig == [ident |-> item.ident, api_kind |-> to_api_kind(item.ident),
                   c_abi |-> FALSE, arg_tys |-> <<>>, ret_ty |-> None]
        st0 == [e |-> FALSE, errs |-> <<>>, fn_sig |-> fn_sig,
                panicked |-> FALSE, push |-> FALSE]
    IN IF ~(item.kind = "Fn" /\ item.vis = "Public") THEN st0
       ELSE IF is_ignored(fn_sig, ign) THEN st0
       ELSE LET s1 == check_qualifiers(item, st0)
                s2 == check_generics(item, s1)
                s3 == check_attrs(item, s2)
                s4 == check_output(item, s3)
                s5 == IF s4.panicked THEN s4 ELSE check_inputs(item.inputs, s4)
            IN IF s5.panicked THEN s5 ELSE [s5 EXCEPT !.push = ~s5.e]

(* get_arg_ids: format!("x{}", i) for i in 0..len. *)
DigitChar == <<"0", "1", "2", "3", "4", "5", "6", "7", "8", "9">>

RECURSIVE decimal(_)
decimal(n) ==
    IF n < 10 THEN <<DigitChar[n + 1]>>
    ELSE decimal(n \div 10) \o <<DigitChar[(n % 10) + 1]>>

(* get_arg_ids counting from one. *)
get_arg_ids_from_one(len) == [i \in 1..len |-> <<"x">> \o decimal(i)]

get_arg_ids(len) == [i \in 1..len |-> <<"x">> \o decimal(i - 1)]

(* The expansion of the user macro for one function, lines 23-37. *)
expand(function) ==
    [id |-> function.ident, api_kind |-> function.api_kind,
     arg_tys |-> function.arg_tys,
     arg_ids |-> get_arg_ids(Len(function.arg_tys)),
     ret_ty |-> function.ret_ty]

(* files.iter().flat_map(|f| f.items.iter()) *)
RECURSIVE flat_map(_)
flat_map(fs) == IF fs = <<>> THEN <<>> ELSE Head(fs) \o flat_map(Tail(fs))

-----------------------------------------------------------------------------
(* The source tree.  Items is what the files of the pipeline hold: valid   *)
(* functions of zero, one and two arguments, functions that break one      *)
(* rule, a function whose return type is a two-segment path, a private     *)
(* function and an item that is no function.                               *)

GoodJnf == [Good EXCEPT !.ident = Jnf, !.inputs = <<Captured(I32), Captured(F64)>>]
GoodUnit == [Good EXCEPT !.inputs = <<>>, !.output = DefaultRet]
NotC == [Good EXCEPT !.abi = "None"]
UnsafeOnly == [Good EXCEPT !.ident = Jnf, !.unsafety = TRUE]
BadArg == [Good EXCEPT !.inputs = <<Captured(NamedT)>>]
PathRet == [Good EXCEPT !.output = TwoSeg]
Private == [Good EXCEPT !.vis = "Inherited"]
NonFn == [kind |-> "Struct", vis |-> "Public", ident |-> Sin]

ArgsRet == [Good EXCEPT !.output = F64Args]

Items ==
    {Good, GoodJnf, GoodUnit, NotC, UnsafeOnly, BadArg, PathRet, ArgsRet,
     Private, NonFn}

SeqsUpTo(S, n) == UNION {[1..k -> S] : k \in 0..n}

(* The ignore set of the macro input: absent, or the names it lists. *)
IgnoredInputs == {None, Some({Jnf}), Some({Sin, Jnf})}

(* The panic messages of get_libm_files. *)
LoadFailures ==
    {"can't format file path", "can't open file at path",
     "failed to read file to string", "failed to parse"}

AssertionFailed == "assertion failed"

-----------------------------------------------------------------------------
(* The run of for_each_api.  pc is "load" during the walk of               *)
(* get_libm_files, "functions" during get_functions, "expand" during the   *)
(* loop of for_each_api, "done" after it, and "panicked" after a panic.    *)
(* walked counts the directory entries the walk has yielded and dropped    *)
(* those that were errors; errors is the sequence of err! reports.         *)

Init ==
    /\ pc = "load"
    /\ walked = 0
    /\ dropped = 0
    /\ files = <<>>
    /\ ignored \in IgnoredInputs
    /\ pos = 1
    /\ functions = <<>>
    /\ errors = <<>>
    /\ next_fn = 1
    /\ tokens = <<>>
    /\ panic = None

Loaded == Len(flat_map(files))

(* A loader that notes the failure and goes on to the next entry. *)
on_load_failure_continue(reason) == [pc |-> "load", panic |-> Some(reason)]

(* What get_libm_files does when a file cannot be loaded: it panics. *)
on_load_failure(reason) == [pc |-> "panicked", panic |-> Some(reason)]

(* Line 57: filter_map(Result::ok) drops an entry the walk could not read. *)
WalkError ==
    /\ pc = "load" /\ walked < MaxEntries
    /\ walked' = walked + 1
    /\ dropped' = dropped + 1
    /\ UNCHANGED <<pc, files, ignored, pos, functions, errors, next_fn, tokens, panic>>

(* Lines 61-69: a directory or a path that does not end in ".rs". *)
SkipEntry ==
    /\ pc = "load" /\ walked < MaxEntries
    /\ walked' = walked + 1
    /\ UNCHANGED <<pc, dropped, files, ignored, pos, functions, errors, next_fn, tokens, panic>>

(* Lines 63-64 and 73-77: the path is not UTF-8, or the file cannot be     *)
(* opened, read or parsed.                                                 *)
LoadFails ==
    /\ pc = "load" /\ walked < MaxEntries
    /\ \E reason \in LoadFailures :
         /\ pc' = on_load_failure(reason).pc
         /\ panic' = on_load_failure(reason).panic
    /\ walked' = walked + 1
    /\ UNCHANGED <<dropped, files, ignored, pos, functions, errors, next_fn, tokens>>

(* Lines 72-78: a .rs file is read, parsed and pushed. *)
LoadFile ==
    /\ pc = "load" /\ walked < MaxEntries
    /\ \E file \in SeqsUpTo(Items, MaxItems - Loaded) :
         files' = Append(files, file)
    /\ walked' = walked + 1
    /\ UNCHANGED <<pc, dropped, ignored, pos, functions, errors, next_fn, tokens, panic>>

(* Line 80: the walk is over. *)
WalkEnd ==
    /\ pc = "load"
    /\ pc' = "functions"
    /\ UNCHANGED <<walked, dropped, files, ignored, pos, functions, errors, next_fn, tokens, panic>>

(* Vec::insert(0, x) *)
push_front(v, x) == <<x>> \o v

(* Vec::push *)
push(v, x) == Append(v, x)

(* Lines 114-264: one iteration of the loop of get_functions. *)
VisitItem ==
    /\ pc = "functions" /\ pos <= Loaded
    /\ LET item == flat_map(files)[pos]
           r == visit_item(item, ignored)
       IN /\ errors' = errors \o [i \in 1..Len(r.errs) |->
                                    [ident |-> name(r.fn_sig), msg |-> r.errs[i]]]
          /\ functions' = IF r.push THEN push(functions, r.fn_sig) ELSE functions
          /\ pc' = IF r.panicked THEN "panicked" ELSE pc
          /\ panic' = IF r.panicked THEN Some(AssertionFailed) ELSE panic
    /\ pos' = pos + 1
    /\ UNCHANGED <<walked, dropped, files, ignored, next_fn, tokens>>

(* Line 269: get_functions returns the functions. *)
ReturnFunctions ==
    /\ pc = "functions" /\ pos > Loaded
    /\ pc' = "expand"
    /\ UNCHANGED <<walked, dropped, files, ignored, pos, functions, errors, next_fn, tokens, panic>>

(* Lines 22-39: one iteration of the loop of for_each_api. *)
ExpandFunction ==
    /\ pc = "expand" /\ next_fn <= Len(functions)
    /\ tokens' = Append(tokens, expand(functions[next_fn]))
    /\ next_fn' = next_fn + 1
    /\ UNCHANGED <<pc, walked, dropped, files, ignored, pos, functions, errors, panic>>

(* Line 40: for_each_api returns the tokens. *)
ReturnTokens ==
    /\ pc = "expand" /\ next_fn > Len(functions)
    /\ pc' = "done"
    /\ UNCHANGED <<walked, dropped, files, ignored, pos, functions, errors, next_fn, tokens, panic>>

Next ==
    \/ WalkError
    \/ SkipEntry
    \/ LoadFails
    \/ LoadFile
    \/ WalkEnd
    \/ VisitItem
    \/ ReturnFunctions
    \/ ExpandFunction
    \/ ReturnTokens

Spec == Init /\ [][Next]_vars

-----------------------------------------------------------------------------
(* A run over a source tree of one file that holds one public function.    *)
(* WideItems is every combination of ABI, qualifiers, variadic marker,     *)
(* generic parameters and attributes with a choice of return types and     *)
(* argument lists; KindItems are valid functions of every short name.      *)

Abis == {"None", "Extern", "C", "system"}

AttrLists == {<<>>, <<Inline>>, <<NoPanic>>, <<Cold>>, <<Inline, NoPanic>>}

Sig(output, inputs) == [output |-> output, inputs |-> inputs]

(* Return type and arguments: supported ones, unsupported ones of every    *)
(* shape valid_ty tells apart, and ones on which its assertions fail.      *)
Signatures ==
    {Sig(F64, <<Captured(F64)>>),
     Sig(DefaultRet, <<>>),
     Sig(F64, <<Captured(I32), Captured(F64)>>),
     Sig(PtrTy(TRUE, F64), <<Captured(PtrTy(FALSE, I32))>>),
     Sig(NamedT, <<Captured(F64)>>),
     Sig(RefTy, <<>>),
     Sig(PtrTy(FALSE, PtrTy(FALSE, F64)), <<Captured(F64)>>),
     Sig(PtrTy(TRUE, RefTy), <<>>),
     Sig(F64, <<Captured(NamedT)>>),
     Sig(F64, <<Captured(NamedT), Captured(F64)>>),
     Sig(F64, <<Captured(F64), Captured(TupleTy)>>),
     Sig(NamedT, <<Captured(PtrTy(FALSE, NamedT))>>),
     Sig(F64, <<Ignored(F64)>>),
     Sig(F64, <<SelfValue>>),
     Sig(TwoSeg, <<Captured(F64)>>),
     Sig(QSelf, <<>>),
     Sig(PtrTy(TRUE, TwoSeg), <<>>),
     Sig(F64, <<Captured(TwoSeg)>>),
     Sig(F64, <<Captured(F64), Captured(PtrTy(TRUE, QSelf))>>),
     Sig(NamedT, <<Captured(NamedT), Captured(TwoSeg)>>)}

WideItems ==
    {ItemFn("Public", Sin, k, a, u, at, abi, tp, lt, cp, sig.inputs, v, sig.output) :
        k \in BOOLEAN, a \in BOOLEAN, u \in BOOLEAN, v \in BOOLEAN,
        tp \in 0..1, lt \in 0..1, cp \in 0..1,
        at \in AttrLists, abi \in Abis, sig \in Signatures}

IdStart == {"s", "n", "S", "_"}
IdChars == IdStart \cup {"0"}

Idents == {<<c>> \o rest : c \in IdStart, rest \in SeqsUpTo(IdChars, MaxIdLen - 1)}

KindItems == {[GoodJnf EXCEPT !.ident = id] : id \in Idents}

InitOne ==
    /\ pc = "functions"
    /\ walked = 1
    /\ dropped = 0
    /\ \E item \in WideItems \cup KindItems : files = <<<<item>>>>
    /\ ignored \in {None, Some({Jnf})}
    /\ pos = 1
    /\ functions = <<>>
    /\ errors = <<>>
    /\ next_fn = 1
    /\ tokens = <<>>
    /\ panic = None

NextOne ==
    \/ VisitItem
    \/ ReturnFunctions
    \/ ExpandFunction
    \/ ReturnTokens

SpecOne == InitOne /\ [][NextOne]_vars

-----------------------------------------------------------------------------
(* The rule table of the validation, stated on the declaration alone.      *)

Primitives == {Prim(n) : n \in Whitelist}

(* A primitive numeric type, or a pointer of one level to one. *)
Supported(t) == t \in Primitives \/ (t.tag = "Ptr" /\ t.elem \in Primitives)

HasMarker(item, marker) ==
    \E i \in 1..Len(item.attrs) : \E j \in 1..Len(item.attrs[i]) :
        item.attrs[i][j] = marker

(* The rules whose failure condition holds for a public function. *)
FailedRules(item) ==
    {r \in {"NotForeignAbi", "IsConst", "IsAsync", "IsUnsafe", "HasVariadic",
            "HasGenericTypeParam", "HasLifetimeParam", "HasConstParam",
            "MissingInlineMarker", "MissingNoPanicMarker",
            "UnsupportedReturnType", "UnsupportedArgType"} :
        CASE r = "NotForeignAbi" -> item.abi # "C"
          [] r = "IsConst" -> item.constness
          [] r = "IsAsync" -> item.asyncness
          [] r = "IsUnsafe" -> item.unsafety
          [] r = "HasVariadic" -> item.variadic
          [] r = "HasGenericTypeParam" -> item.type_params >= 1
          [] r = "HasLifetimeParam" -> item.lifetimes >= 1
          [] r = "HasConstParam" -> item.const_params >= 1
          [] r = "MissingInlineMarker" -> ~HasMarker(item, "inline")
          [] r = "MissingNoPanicMarker" -> ~HasMarker(item, "no_panic")
          [] r = "UnsupportedReturnType" ->
               item.output # DefaultRet /\ ~Supported(item.output)
          [] r = "UnsupportedArgType" ->
               \E i \in 1..Len(item.inputs) :
                   ~(item.inputs[i].kind = "Captured" /\ Supported(item.inputs[i].ty))}

(* The rules a report of get_functions speaks of. *)
RulesOf(msg) ==
    CASE msg = NotExternC -> {"NotForeignAbi"}
      [] msg = IsConst -> {"IsConst"}
      [] msg = IsAsync -> {"IsAsync"}
      [] msg = IsUnsafe -> {"IsUnsafe"}
      [] msg = HasVariadic -> {"HasVariadic"}
      [] msg = HasGenerics -> {"HasGenericTypeParam"}
      [] msg = HasLifetimes -> {"HasLifetimeParam"}
      [] msg = HasConsts -> {"HasConstParam"}
      [] msg = MissingBoth -> {"MissingInlineMarker", "MissingNoPanicMarker"}
      [] msg = MissingInline -> {"MissingInlineMarker"}
      [] msg = MissingNoPanic -> {"MissingNoPanicMarker"}
      [] msg = BadReturn -> {"UnsupportedReturnType"}
      [] msg = BadArgument -> {"UnsupportedArgType"}

Candidates == flat_map(files)

IsCandidate(item) == item.kind = "Fn" /\ item.vis = "Public"

Named(item, ign) == ign # None /\ item.ident \in ign[1]

DeclaredArgs(item) == [i \in 1..Len(item.inputs) |-> item.inputs[i].ty]

DeclaredRet(item) == IF item.output = DefaultRet THEN None ELSE Some(item.output)

(* get_functions has returned. *)
Returned == pc \in {"expand", "done"}

(* The function of the one-function tree, once get_functions visited it. *)
TheItem == files[1][1]
Visited == pos > 1

TypesOf(fn_sig) == {fn_sig.arg_tys[i] : i \in 1..Len(fn_sig.arg_tys)}
                     \cup {fn_sig.ret_ty[i] : i \in 1..Len(fn_sig.ret_ty)}

-----------------------------------------------------------------------------
(* C1: every parameter type and return type of every entry of the catalog  *)
(* get_functions builds is one of the twelve primitive numeric types or a  *)
(* pointer of exactly one level to one of them.                            *)
C1_OnlySupportedTypes ==
    \A k \in 1..Len(functions) : \A t \in TypesOf(functions[k]) : Supported(t)

(* C2: a candidate for which at least one of the twelve rules fails is not *)
(* in the catalog get_functions returns, whichever rule it is.             *)
C2_FailingCandidateExcluded ==
    (Returned /\ FailedRules(TheItem) # {}) => functions = <<>>

C4_IgnoredDropped ==
    ignored # None =>
        /\ \A k \in 1..Len(functions) : functions[k].ident \notin ignored[1]
        /\ \A k \in 1..Len(errors) : errors[k].ident \notin ignored[1]

C4_Witness ==
    /\ pc = "done"
    /\ ignored = Some({Jnf})
    /\ Candidates = <<UnsafeOnly, GoodJnf>>
    /\ functions = <<>>
    /\ errors = <<>>

(* C5: for every candidate that reaches the validation, every rule whose   *)
(* failure condition holds is reported by an error for the candidate's     *)
(* name, however many rules fail.                                          *)
C5_EveryFailureReported ==
    (Visited /\ IsCandidate(TheItem) /\ ~Named(TheItem, ignored))
    => \A r \in FailedRules(TheItem) :
          \E k \in 1..Len(errors) :
              errors[k].ident = TheItem.ident /\ r \in RulesOf(errors[k].msg)

(* C6: no candidate makes the run abort: once the files are loaded,        *)
(* get_functions never panics.                                             *)
C6_NeverAborts == pc # "panicked"

MatchesDecl(fn_sig, item) ==
    /\ IsCandidate(item)
    /\ fn_sig.ident = item.ident
    /\ fn_sig.arg_tys = DeclaredArgs(item)
    /\ fn_sig.ret_ty = DeclaredRet(item)

(* sigs match, in order, some of the items. *)
RECURSIVE IsSubsequence(_, _)
IsSubsequence(sigs, items) ==
    \/ sigs = <<>>
    \/ /\ items # <<>>
       /\ \/ MatchesDecl(Head(sigs), Head(items))
             /\ IsSubsequence(Tail(sigs), Tail(items))
          \/ IsSubsequence(sigs, Tail(items))

(* C8: the catalog is a subsequence of the candidates in the order of the  *)
(* files and of the declarations in each file, and the records are emitted *)
(* in the order of the catalog.                                            *)
C8_DiscoveryOrder ==
    /\ IsSubsequence(functions, SubSeq(Candidates, 1, pos - 1))
    /\ Len(tokens) <= Len(functions)
    /\ \A k \in 1..Len(tokens) : tokens[k].id = functions[k].ident

C8_Witness ==
    /\ pc = "done"
    /\ files = <<<<Good>>, <<GoodJnf>>>>
    /\ Len(tokens) = 2
    /\ tokens[1].id = Sin /\ tokens[2].id = Jnf

(* The parameter names, spelled out. *)
ArgNames == << <<"x", "0">>, <<"x", "1">>, <<"x", "2">>, <<"x", "3">> >>

(* C9: for_each_api emits one record per catalog entry, in order, with the *)
(* names x0, x1, ... for the parameters and every other field unchanged.   *)
C9_OneRecordPerEntry ==
    /\ pc = "done" => Len(tokens) = Len(functions)
    /\ Len(tokens) = next_fn - 1
    /\ \A k \in 1..Len(tokens) :
          /\ tokens[k].id = functions[k].ident
          /\ tokens[k].api_kind = functions[k].api_kind
          /\ tokens[k].arg_tys = functions[k].arg_tys
          /\ tokens[k].ret_ty = functions[k].ret_ty
          /\ tokens[k].arg_ids = SubSeq(ArgNames, 1, Len(functions[k].arg_tys))

C9_Witness ==
    /\ pc = "done"
    /\ Len(tokens) = 2
    /\ tokens[1].arg_ids = <<>>
    /\ tokens[2].arg_ids = << <<"x", "0">>, <<"x", "1">> >>

(* C10: the category of a function is its name with the first character in *)
(* upper case and every other character unchanged.                         *)
C10_FirstCharUpper ==
    \A k \in 1..Len(functions) :
        LET id == functions[k].ident
            kind == functions[k].api_kind
        IN /\ Len(kind) = Len(id)
           /\ kind[1] = to_uppercase(id[1])
           /\ \A i \in 2..Len(id) : kind[i] = id[i]

C10_Witness ==
    /\ pc = "done"
    /\ Len(functions) = 1
    /\ functions[1].ident = <<"s", "n", "s">>
    /\ functions[1].api_kind = <<"S", "n", "s">>

====
